---- MODULE Spec2Model ----
(***************************************************************************)
(* btc-cycle-timer: the dynamic predictor (model ensemble, forecast        *)
(* history, accuracy tracker, adaptive retrainer) of dynamic_predictor.py  *)
(* and the forecast combiner of forecast_updater.py.                       *)
(*                                                                         *)
(* Numbers.  Prices are integers.  A float the code computes as a ratio is *)
(* kept as the exact fraction [num, den]; percentages that the chosen      *)
(* inputs make whole are integers.  Weights are kept in tenths (0.5 = 5).  *)
(* Time is counted in days; the price series has one row per day and the   *)
(* date of row i is day i.  The series is kept run-length encoded: a       *)
(* sequence of runs [n, close] stands for n consecutive daily rows with    *)
(* that close.                                                             *)
(***************************************************************************)
EXTENDS Integers, Sequences, FiniteSets, TLC

VARIABLES
    dp,         \* the DynamicPredictor instance (dynamic_predictor.py:460)
    disk,       \* the files under models/: model files, scalers, history
    fu,         \* the ForecastUpdater instance (forecast_updater.py:431)
    prices,     \* the price series load_price_data() returns: closes by day
    now,        \* the day datetime.now() falls on
    runs,       \* number of train_ensemble_models calls so far (names a fit)
    everTrained,\* a train_ensemble_models call has completed without raising
    faults,     \* number of injected failures so far (I/O, library errors)
    lastCall,   \* the operation that ran last and what it returned
    cin,        \* arguments of the function called on its own
    cout,       \* result of the function called on its own
    callers,    \* where each concurrent caller of train_ensemble_models is
    date_today, \* the day date.today() returns, counted from CYCLE_BOTTOM_DATE
    mon,        \* the MonitoringSystem instance, its scheduler, what it sent
    cm          \* the CycleManager instance, the dates its process imported,
                \* and the files config.py and cycle_history.json

vars == <<dp, disk, fu, prices, now, runs, everTrained, faults, lastCall, cin, cout,
          callers, date_today, mon, cm>>

(***************************************************************************)
(* Bounds of the model.                                                    *)
(***************************************************************************)
Horizon == 30           \* days the clock may run past the initial series
MaxTrainings == 2       \* train_ensemble_models calls explored
MaxHistory == 2         \* length of predictions_history explored
MaxUpdates == 1         \* length of update_history explored
MaxFaults == 1          \* injected failures explored in one behaviour
MaxPrice == 4            \* prices handed to the accuracy formulas alone
MaxCallers == 2          \* concurrent callers of train_ensemble_models
PhaseMargin == 5         \* days explored before the anchor and after the last phase
MaxNotifications == 2    \* phase-change messages counted for one phase; more count as this many
MaxCycleEntries == 3     \* entries of the cycle history

(***************************************************************************)
(* Program constants.                                                      *)
(***************************************************************************)
LookbackWindow == 200   \* rolling(200): the longest window
TargetShift == 30       \* shift(-30) and pct_change(30)
DaysAhead == 30         \* make_ensemble_prediction(days_ahead=30)
RetrainThreshold == 70  \* average_accuracy < 70

ModelNames == <<"random_forest", "gradient_boosting", "linear">>
Names == {ModelNames[i] : i \in 1..Len(ModelNames)}

\* weights of make_ensemble_prediction, in tenths
EnsembleWeight(name) ==
    CASE name = "random_forest" -> 4
      [] name = "gradient_boosting" -> 4
      [] name = "linear" -> 2

(***************************************************************************)
(* Input sets.                                                             *)
(***************************************************************************)
Closes == {50, 100}             \* closing prices of the series
FitCoefs == {100, 130}          \* what a fit learns: prediction in % of close
TimeSteps == {DaysAhead}
InitRows == LookbackWindow + TargetShift + 1

EmptyDict == [x \in {} |-> 0]

RECURSIVE SumOver(_, _)
SumOver(f, S) ==
    IF S = {} THEN 0
    ELSE LET x == CHOOSE y \in S : TRUE IN f[x] + SumOver(f, S \ {x})

\* exact fractions [num, den], den > 0
Frac(n) == [num |-> n, den |-> 1]
FracAdd(a, b) == [num |-> a.num * b.den + b.num * a.den, den |-> a.den * b.den]
FracLess(a, b) == a.num * b.den < b.num * a.den
FracLeq(a, b) == a.num * b.den <= b.num * a.den

RECURSIVE SumSeq(_)
SumSeq(s) == IF s = <<>> THEN Frac(0) ELSE FracAdd(Head(s), SumSeq(Tail(s)))

\* F(v), with v evaluated once (a local variable of the code)
Let(v, F(_)) == CHOOSE r \in {F(x) : x \in {v}} : TRUE

Abs(x) == IF x < 0 THEN -x ELSE x
Max(a, b) == IF a >= b THEN a ELSE b

\* the price series: number of rows, close of row i, rows appended
RECURSIVE SeriesLen(_)
SeriesLen(series) ==
    IF series = <<>> THEN 0 ELSE Head(series).n + SeriesLen(Tail(series))

RECURSIVE CloseAt(_, _)
CloseAt(series, i) ==
    IF i <= Head(series).n THEN Head(series).close
    ELSE CloseAt(Tail(series), i - Head(series).n)

AppendRows(series, k, c) ==
    IF series # <<>> /\ series[Len(series)].close = c
    THEN [series EXCEPT ![Len(series)].n = @ + k]
    ELSE Append(series, [n |-> k, close |-> c])


(***************************************************************************)
(* DynamicPredictor                                                        *)
(***************************************************************************)
\* an estimator as constructed: never fitted
Unfitted == [gen |-> 0, coef |-> 0]

\* __init__ before load_models
NewPredictor ==
    [models |-> [n \in Names |-> Unfitted],
     scalers |-> EmptyDict,
     predictions_history |-> <<>>,
     forecast_accuracy |-> [kind |-> "empty"]]

NoFile == [exists |-> FALSE]
NewDisk ==
    [models |-> [n \in Names |-> NoFile],
     scalers |-> NoFile,
     history |-> NoFile]

\* prepare_advanced_features: the rows (days) left by dropna(): rolling(200)
\* is undefined on the first 199 rows, target_30d on the last 30 rows
FeatureRows(series) == LookbackWindow..(SeriesLen(series) - TargetShift)

\* the columns of the frame handed to the feature building.  The files that
\* fetch_btc_data writes carry date, open, high, low, close, volume
\* (price.py:97); load_price_data keeps date and close alone (chart.py:31),
\* and a caller of train_ensemble_models(df) hands over what it has.
Columns == {"ohlcv", "close"}

\* prepare_advanced_features(df): df['high'] raises KeyError on a frame
\* without that column; otherwise the table dropna() leaves, empty or not
prepare_advanced_features(series, columns) ==
    IF columns = "close" THEN [kind |-> "raised"]
    ELSE [kind |-> "table", rows |-> FeatureRows(series)]

\* df[:train_size] with train_size = int(len(df) * 0.8)
TrainSize(series) == (Cardinality(FeatureRows(series)) * 8) \div 10

Idx(name) == CHOOSE i \in 1..Len(ModelNames) : ModelNames[i] = name

File(content) == [exists |-> TRUE, content |-> content]

\* save_models: every model, then the scalers dict
save_models(p, d) ==
    [d EXCEPT !.models = [n \in Names |-> File(p.models[n])],
              !.scalers = File(p.scalers)]

\* where a train_ensemble_models call raises: nowhere, in
\* prepare_advanced_features, or in one step of the loop body of strategy `at`
NoFailure == [at |-> 0, step |-> "none"]
FailurePoints ==
    [at : 1..Len(ModelNames), step : {"scale", "fit", "metrics"}]
\* the points explored: before the loop, between the first and the second
\* strategy, in the second fit, and after the third fit
TrainFailures ==
    {NoFailure, [at |-> 0, step |-> "features"]}
        \cup {f \in FailurePoints :
                \/ f.at = 2 /\ f.step \in {"scale", "fit"}
                \/ f.at = 3 /\ f.step = "metrics"}

\* StandardScaler.fit_transform raises on an empty training split
EffectiveFailure(series, fail) ==
    IF fail.step # "features" /\ TrainSize(series) = 0
    THEN [at |-> 1, step |-> "scale"]
    ELSE fail

\* self.scalers[model_name] = scaler has run for strategy i
ScalerAssigned(eff, i) ==
    \/ eff.step = "none"
    \/ eff.step # "features" /\ i < eff.at
    \/ i = eff.at /\ eff.step \in {"fit", "metrics"}

\* model.fit(X_train_scaled, y_train) has completed for strategy i
ModelFitted(eff, i) ==
    \/ eff.step = "none"
    \/ eff.step # "features" /\ i < eff.at
    \/ i = eff.at /\ eff.step = "metrics"

\* train_ensemble_models(df): gen names this call, fit is what each strategy
\* learns, fail is where the call raises.  Returns the predictor, the disk
\* and whether the call raised.
train_ensemble_models(p, d, series, gen, fit, fail) ==
    LET eff == EffectiveFailure(series, fail)
        newScaled == {n \in Names : ScalerAssigned(eff, Idx(n))}
        p1 == [p EXCEPT
                !.models = [n \in Names |->
                    IF ModelFitted(eff, Idx(n))
                    THEN [gen |-> gen, coef |-> fit[n]]
                    ELSE p.models[n]],
                !.scalers = [n \in (DOMAIN p.scalers) \cup newScaled |->
                    IF n \in newScaled THEN gen ELSE p.scalers[n]]]
        raised == eff.step # "none"
    IN [dp |-> p1,
        disk |-> IF raised THEN d ELSE save_models(p1, d),
        raised |-> raised]

\* load_models: each model file that exists, then the scalers file; loadFail
\* is the file (1..3 a model, 4 the scalers) whose joblib.load raises
load_models(p, d, loadFail) ==
    LET stop == IF loadFail \in 1..Len(ModelNames)
                   /\ d.models[ModelNames[loadFail]].exists THEN loadFail
                ELSE IF loadFail = Len(ModelNames) + 1 /\ d.scalers.exists
                THEN loadFail
                ELSE Len(ModelNames) + 2
    IN [p EXCEPT
         !.models = [n \in Names |->
            IF Idx(n) < stop /\ d.models[n].exists
            THEN d.models[n].content ELSE p.models[n]],
         !.scalers =
            IF Len(ModelNames) + 1 < stop /\ d.scalers.exists
            THEN d.scalers.content ELSE p.scalers]

\* save_predictions_history: open(history_file, 'w') and dump the whole list
save_predictions_history(p, d) ==
    [d EXCEPT !.history = File(p.predictions_history)]

\* load_predictions_history
load_predictions_history(p, d) ==
    IF d.history.exists
    THEN [p EXCEPT !.predictions_history = d.history.content]
    ELSE p

\* model.predict on the latest feature row: coef percent of that row's close
Predict(model, close) == (close * model.coef) \div 100

\* df[self.feature_columns].iloc[-1:] : the last row dropna() left
LatestFeatureRow(series) == SeriesLen(series) - TargetShift

NoPrediction == [kind |-> "None"]

\* 'model_agreement': 1 - (prediction_std / ensemble_prediction)
\*                    if ensemble_prediction > 0 else 0
\* with prediction_std = np.std(predictions_list), the population standard
\* deviation.  The value is kept exact as 1 - sqrt(ratio_sq), where
\* ratio_sq = variance / ensemble_prediction^2
\*          = 100 * (n * sum(p^2) - sum(p)^2) / (n^2 * (sum(tenths * p))^2)
ModelAgreement(predictions) ==
    LET used == DOMAIN predictions
        n == Cardinality(used)
        sum == SumOver(predictions, used)
        squares == SumOver([m \in used |-> predictions[m] * predictions[m]], used)
        weighted == SumOver([m \in used |-> predictions[m] * EnsembleWeight(m)], used)
    IN IF weighted > 0
       THEN [kind |-> "complement",
             ratio_sq |-> [num |-> 100 * (n * squares - sum * sum),
                           den |-> n * n * weighted * weighted]]
       ELSE [kind |-> "zero"]

\* a prediction that drops the scalers it used
make_ensemble_prediction_dropping(p, d, series, columns, today) ==
    [dp |-> [p EXCEPT !.scalers = EmptyDict], disk |-> d, ret |-> NoPrediction]

\* make_ensemble_prediction: None when there is no scaler, and when the try
\* block raises (a frame without the high column, no feature row to
\* transform, an estimator that was never fitted)
make_ensemble_prediction(p, d, series, columns, today) ==
    LET used == {n \in Names : n \in DOMAIN p.scalers}
        row == LatestFeatureRow(series)
        predictions == [n \in used |-> Predict(p.models[n], CloseAt(series, row))]
        ensemble_prediction ==
            SumOver([n \in used |-> predictions[n] * EnsembleWeight(n)], used)
                \div 10
        result ==
            [kind |-> "result",
             current_price |-> CloseAt(series, row),
             ensemble_prediction |-> ensemble_prediction,
             individual_predictions |-> predictions,
             model_agreement |-> ModelAgreement(predictions),
             prediction_date |-> today,
             target_date |-> today + DaysAhead]
    IN IF p.scalers = EmptyDict
       THEN [dp |-> p, disk |-> d, ret |-> NoPrediction]
       ELSE IF \/ prepare_advanced_features(series, columns).kind = "raised"
               \/ FeatureRows(series) = {}
               \/ \E n \in used : p.models[n].gen = 0
       THEN [dp |-> p, disk |-> d, ret |-> NoPrediction]
       ELSE Let([p EXCEPT !.predictions_history = Append(@, result)],
                LAMBDA p1 :
                    [dp |-> p1, disk |-> save_predictions_history(p1, d),
                     ret |-> p1.predictions_history[Len(p1.predictions_history)]])

(***************************************************************************)
(* Accuracy tracker and adaptive retrainer                                 *)
(***************************************************************************)
\* df[df['date'] >= target_date]: the rows dated at or after the target
RowsFrom(series, target_date) == Max(1, target_date)..SeriesLen(series)

\* .iloc[-1] of those rows, in place of .iloc[0]
LastRowFrom(series, target_date) == SeriesLen(series)

\* .iloc[0] of those rows (the series is sorted by date)
FirstRowFrom(series, target_date) == Max(1, target_date)

\* (error / actual_price) * 100, as an exact fraction
ErrorPercent(actual_price, predicted_price) ==
    [num |-> Abs(actual_price - predicted_price) * 100, den |-> actual_price]

\* 100 - e without the max(0, .)
UnclampedComplement(e) == [num |-> 100 * e.den - e.num, den |-> e.den]

\* max(0, x) of the fraction 100 - e
ClampedComplement(e) == [num |-> Max(0, 100 * e.den - e.num), den |-> e.den]

\* accuracy = max(0, 100 - error_percent)   (analyze_forecast_accuracy)
Accuracy(actual_price, predicted_price) ==
    ClampedComplement(ErrorPercent(actual_price, predicted_price))

\* 'accuracy': max(0, 100 - error_percent)   (evaluate_predictions)
EvaluationAccuracy(actual_price, predicted_price) ==
    ClampedComplement(ErrorPercent(actual_price, predicted_price))

\* one entry of accuracy_analysis
AnalysisEntry(series, pred) ==
    LET actual_price == CloseAt(series, FirstRowFrom(series, pred.target_date))
        predicted_price == pred.ensemble_prediction
    IN [predicted_price |-> predicted_price,
        actual_price |-> actual_price,
        error |-> Abs(actual_price - predicted_price),
        error_percent |-> ErrorPercent(actual_price, predicted_price),
        accuracy |-> Accuracy(actual_price, predicted_price),
        model_accuracy |->
            [n \in DOMAIN pred.individual_predictions |->
                Accuracy(actual_price, pred.individual_predictions[n])]]

\* the loop of analyze_forecast_accuracy: the entries of the predictions
\* whose target date has a price row.  prediction_date carries microseconds,
\* so the keys of accuracy_analysis are distinct and the dict is this list.
RECURSIVE AccuracyAnalysis(_, _)
AccuracyAnalysis(series, history) ==
    IF history = <<>> THEN <<>>
    ELSE LET pred == Head(history)
             rest == AccuracyAnalysis(series, Tail(history))
         IN IF RowsFrom(series, pred.target_date) # {}
            THEN <<AnalysisEntry(series, pred)>> \o rest
            ELSE rest

\* np.mean of a non-empty list of fractions
Mean(values) ==
    Let(SumSeq(values), LAMBDA sum : [num |-> sum.num, den |-> sum.den * Len(values)])

\* average <= 70 in place of average < 70
AtMostThreshold(average) == FracLeq(average, Frac(RetrainThreshold))

\* accuracy_data['average_accuracy'] < 70
BelowThreshold(average) == FracLess(average, Frac(RetrainThreshold))

\* self.forecast_accuracy = {...} of a non-empty accuracy_analysis
ForecastAccuracy(analysis) ==
    [kind |-> "analysis",
     total_predictions |-> Len(analysis),
     average_accuracy |->
        Mean([i \in 1..Len(analysis) |-> analysis[i].accuracy]),
     average_error_percent |->
        Mean([i \in 1..Len(analysis) |-> analysis[i].error_percent]),
     model_performance |->
        [n \in Names |->
            Mean([i \in 1..Len(analysis) |->
                    IF n \in DOMAIN analysis[i].model_accuracy
                    THEN analysis[i].model_accuracy[n] ELSE Frac(0)])],
     detailed_analysis |-> analysis]

\* analyze_forecast_accuracy: returns the predictor and the dict returned,
\* which is the stored forecast_accuracy when nothing could be analysed
analyze_forecast_accuracy(p, series) ==
    IF p.predictions_history = <<>>
    THEN [dp |-> p, ret |-> [kind |-> "error"]]
    ELSE Let(AccuracyAnalysis(series, p.predictions_history),
             LAMBDA analysis :
                IF analysis = <<>>
                THEN [dp |-> p, ret |-> p.forecast_accuracy]
                ELSE Let(ForecastAccuracy(analysis),
                         LAMBDA fa :
                            [dp |-> [p EXCEPT !.forecast_accuracy = fa],
                             ret |-> fa]))

\* the outcome of adaptive_model_update when it does not train
NotTrained(p, d, ret) ==
    [dp |-> p, disk |-> d, ret |-> ret, trained |-> FALSE,
     train_raised |-> FALSE]

\* adaptive_model_update: ret is "True", "False" or "raised"; trained tells
\* whether train_ensemble_models was called
adaptive_model_update(p, d, series, gen, fit, fail) ==
    Let(analyze_forecast_accuracy(p, series),
        LAMBDA a :
            IF a.ret.kind = "error" THEN NotTrained(a.dp, d, "False")
            ELSE IF a.ret.kind = "empty"   \* {}['average_accuracy']: KeyError
            THEN NotTrained(a.dp, d, "raised")
            ELSE IF BelowThreshold(a.ret.average_accuracy)
            THEN Let(train_ensemble_models(a.dp, d, series, gen, fit, fail),
                     LAMBDA t :
                        [dp |-> t.dp, disk |-> t.disk,
                         ret |-> IF t.raised THEN "raised" ELSE "True",
                         trained |-> TRUE, train_raised |-> t.raised])
            ELSE NotTrained(a.dp, d, "False"))

(***************************************************************************)
(* ForecastUpdater                                                         *)
(***************************************************************************)
Methods == <<"ml", "cycle", "technical">>

NewUpdater == [update_history |-> <<>>, last_update |-> [kind |-> "None"]]

\* `ml_pred and 'ensemble_prediction' in ml_pred`, and likewise for the others
MlAvailable(ml_pred) == ml_pred.kind = "result"
CycleAvailable(cycle_pred) == cycle_pred.kind = "result"
TechAvailable(tech_pred) == tech_pred.kind = "result"

\* the lists `predictions` and `weights` (tenths) after the three ifs
CombinedInputs(ml_pred, cycle_pred, tech_pred) ==
    (IF MlAvailable(ml_pred)
     THEN <<[p |-> ml_pred.ensemble_prediction, w |-> 5]>> ELSE <<>>)
    \o (IF CycleAvailable(cycle_pred)
        THEN <<[p |-> cycle_pred.estimated_peak, w |-> 3]>> ELSE <<>>)
    \o (IF TechAvailable(tech_pred)
        THEN <<[p |-> tech_pred.predicted_price, w |-> 2]>> ELSE <<>>)

RECURSIVE SumInts(_)
SumInts(s) == IF s = <<>> THEN 0 ELSE Head(s) + SumInts(Tail(s))

\* dict(zip(['ml', 'cycle', 'technical'], weights))
MethodWeights(weights) ==
    [m \in {Methods[i] : i \in 1..Len(weights)} |->
        weights[CHOOSE i \in 1..Len(weights) : Methods[i] = m]]

\* d.get(key) of an available / unavailable method
Got(available, value) ==
    IF available THEN [kind |-> "value", value |-> value] ELSE [kind |-> "None"]

\* _combine_predictions.  kind is "error" (no valid predictions), "raised"
\* (ml_pred is None and ml_pred.get is evaluated) or "forecast".  The
\* confidence entry is not modelled.
combine_predictions(ml_pred, cycle_pred, tech_pred, current_price) ==
    LET inputs == CombinedInputs(ml_pred, cycle_pred, tech_pred)
        weights == [i \in 1..Len(inputs) |-> inputs[i].w]
        total_weight == SumInts(weights)
        weighted_prediction ==
            [num |-> SumInts([i \in 1..Len(inputs) |-> inputs[i].p * inputs[i].w]),
             den |-> total_weight]
    IN IF inputs = <<>> THEN [kind |-> "error"]
       ELSE IF ml_pred.kind = "None" THEN [kind |-> "raised"]
       ELSE [kind |-> "forecast",
             combined_prediction |-> weighted_prediction,
             predicted_change |->
                [num |-> 100 * (weighted_prediction.num
                                  - current_price * weighted_prediction.den),
                 den |-> current_price * weighted_prediction.den],
             method_weights |-> MethodWeights(weights),
             individual_predictions |->
                [m \in {"ml", "cycle", "technical"} |->
                    CASE m = "ml" ->
                            Got(MlAvailable(ml_pred), ml_pred.ensemble_prediction)
                      [] m = "cycle" ->
                            Got(CycleAvailable(cycle_pred), cycle_pred.estimated_peak)
                      [] m = "technical" ->
                            Got(TechAvailable(tech_pred), tech_pred.predicted_price)]]

\* a variant whose combination drops the cycle method once a prediction is
\* on record
generate_comprehensive_forecast_by_history(p, d, series, columns, today, cycle_pred, tech_pred, current_price) ==
    Let(make_ensemble_prediction(p, d, series, columns, today),
        LAMBDA m :
            [dp |-> m.dp, disk |-> m.disk, ml_pred |-> m.ret,
             forecast |-> combine_predictions(m.ret,
                            IF p.predictions_history = <<>>
                            THEN cycle_pred ELSE [kind |-> "error"],
                            tech_pred, current_price)])

\* _generate_comprehensive_forecast: the ML prediction, then the combination
generate_comprehensive_forecast(p, d, series, columns, today, cycle_pred, tech_pred, current_price) ==
    Let(make_ensemble_prediction(p, d, series, columns, today),
        LAMBDA m :
            [dp |-> m.dp, disk |-> m.disk, ml_pred |-> m.ret,
             forecast |-> combine_predictions(m.ret, cycle_pred, tech_pred,
                                              current_price)])

\* the methods that produced a prediction
AvailableMethods(ml_pred, cycle_pred, tech_pred) ==
    (IF MlAvailable(ml_pred) THEN {"ml"} ELSE {})
    \cup (IF CycleAvailable(cycle_pred) THEN {"cycle"} ELSE {})
    \cup (IF TechAvailable(tech_pred) THEN {"technical"} ELSE {})

\* perform_forecast_update: any exception ends the call with None and leaves
\* what was done before it.  forecast_updates.json, which _save_update_history
\* rewrites from update_history, is read by load_update_history alone, which
\* generate_update_report calls only while update_history is empty, before
\* this process has written the file: the file is not kept.
perform_forecast_update(u, p, d, series, columns, today, gen, fit, fail, cycle_pred, tech_pred, current_price) ==
    Let(adaptive_model_update(p, d, series, gen, fit, fail),
        LAMBDA a :
            IF a.ret = "raised"
            THEN [fu |-> u, dp |-> a.dp, disk |-> a.disk, ret |-> "None",
                  trained |-> a.trained, train_raised |-> a.train_raised,
                  forecast |-> "not_reached", avail |-> {}]
            ELSE Let(generate_comprehensive_forecast(a.dp, a.disk, series,
                        columns, today, cycle_pred, tech_pred, current_price),
                     LAMBDA g :
                        [fu |-> IF g.forecast.kind = "raised" THEN u
                                ELSE [update_history |->
                                        Append(u.update_history,
                                            [update_date |-> today,
                                             new_forecast |-> g.forecast,
                                             current_price |-> current_price]),
                                      last_update |->
                                        [kind |-> "value", value |-> today]],
                         dp |-> g.dp, disk |-> g.disk,
                         ret |-> IF g.forecast.kind = "raised" THEN "None"
                                 ELSE "update_record",
                         trained |-> a.trained,
                         train_raised |-> a.train_raised,
                         forecast |-> g.forecast.kind,
                         avail |-> AvailableMethods(g.ml_pred, cycle_pred,
                                                    tech_pred)]))

\* check_forecast_update_needed: the prediction it makes is appended to
\* predictions_history like any other; needs_update from the expected change
\* (more than 10 percent), the model agreement (below 0.7, that is
\* std / prediction above 0.3) and the days since the last update
check_forecast_update_needed(u, p, d, series, columns, today) ==
    Let(make_ensemble_prediction(p, d, series, columns, today),
        LAMBDA m :
            [dp |-> m.dp, disk |-> m.disk,
             ret |->
                IF m.ret.kind # "result" THEN FALSE
                ELSE LET latest_prediction == m.ret
                         price_change_over_10 ==
                            Abs(latest_prediction.ensemble_prediction
                                  - latest_prediction.current_price) * 100
                              > 10 * latest_prediction.current_price
                         model_agreement == latest_prediction.model_agreement
                         days_since_last_update ==
                            IF u.last_update.kind = "None" THEN 999
                            ELSE today - u.last_update.value
                         agreement_under_07 ==
                            \/ model_agreement.kind = "zero"
                            \/ 100 * model_agreement.ratio_sq.num
                                 > 9 * model_agreement.ratio_sq.den
                     IN \/ price_change_over_10
                        \/ agreement_under_07
                        \/ days_since_last_update > 7])

\* generate_update_report up to the report text: the check, then the update
\* when the check asks for it
generate_update_report(u, p, d, series, columns, today, gen, fit, fail, cycle_pred, tech_pred, current_price) ==
    Let(check_forecast_update_needed(u, p, d, series, columns, today),
        LAMBDA c :
            IF c.ret
            THEN Let(perform_forecast_update(u, c.dp, c.disk, series, columns,
                        today, gen, fit, fail, cycle_pred, tech_pred,
                        current_price),
                     LAMBDA r :
                        [fu |-> r.fu, dp |-> r.dp, disk |-> r.disk,
                         needed |-> TRUE, update_result |-> r.ret,
                         trained |-> r.trained,
                         train_raised |-> r.train_raised,
                         forecast |-> r.forecast, avail |-> r.avail])
            ELSE [fu |-> u, dp |-> c.dp, disk |-> c.disk, needed |-> FALSE,
                  update_result |-> "None", trained |-> FALSE,
                  train_raised |-> FALSE, forecast |-> "not_reached",
                  avail |-> {}])

(***************************************************************************)
(* config.py and timer.py: the dates of the cycle, the phase, the timers.  *)
(* Dates are day numbers counted from the cycle-bottom anchor              *)
(* CYCLE_BOTTOM_DATE (2022-11-22), which is day 0.                         *)
(***************************************************************************)
CYCLE_BOTTOM_DATE == 0
PHASE_ACCUMULATION_END == 180
PHASE_PARABOLIC_END == 730
PHASE_DISTRIBUTION_END == 1000
PHASE_CAPITULATION_END == 1460

\* the first comparison strict, in place of <=
get_current_cycle_phase_strict(today) ==
    LET days_since_bottom == today - CYCLE_BOTTOM_DATE
    IN IF days_since_bottom < PHASE_ACCUMULATION_END THEN "accumulation"
       ELSE IF days_since_bottom <= PHASE_PARABOLIC_END THEN "parabolic"
       ELSE IF days_since_bottom <= PHASE_DISTRIBUTION_END THEN "distribution"
       ELSE IF days_since_bottom <= PHASE_CAPITULATION_END THEN "capitulation"
       ELSE "unknown"

\* the phases repeating with the cycle length, in place of "unknown"
get_current_cycle_phase_cyclic(today) ==
    LET days_since_bottom ==
            (today - CYCLE_BOTTOM_DATE) % (PHASE_CAPITULATION_END + 1)
    IN IF days_since_bottom <= PHASE_ACCUMULATION_END THEN "accumulation"
       ELSE IF days_since_bottom <= PHASE_PARABOLIC_END THEN "parabolic"
       ELSE IF days_since_bottom <= PHASE_DISTRIBUTION_END THEN "distribution"
       ELSE "capitulation"

\* get_current_cycle_phase, given what date.today() returns
get_current_cycle_phase(today) ==
    LET days_since_bottom == today - CYCLE_BOTTOM_DATE
    IN IF days_since_bottom <= PHASE_ACCUMULATION_END THEN "accumulation"
       ELSE IF days_since_bottom <= PHASE_PARABOLIC_END THEN "parabolic"
       ELSE IF days_since_bottom <= PHASE_DISTRIBUTION_END THEN "distribution"
       ELSE IF days_since_bottom <= PHASE_CAPITULATION_END THEN "capitulation"
       ELSE "unknown"

NEXT_HALVING == 1976        \* date(2028, 4, 20)
CYCLE_PEAK == 1054          \* date(2025, 10, 11)
CYCLE_BOTTOM == 1438        \* date(2026, 10, 30)

\* days_until(target): (target - date.today()).days
days_until(target, today) == target - today

\* get_all_timers, given what date.today() returns
get_all_timers(today) ==
    [halving |-> days_until(NEXT_HALVING, today),
     peak |-> days_until(CYCLE_PEAK, today),
     bottom |-> days_until(CYCLE_BOTTOM, today)]

(***************************************************************************)
(* monitoring.py: the MonitoringSystem.  sent counts, by new phase, the    *)
(* phase-change messages handed to _send_telegram_message; part and        *)
(* hourly_ran are where the scheduler is in the day.  A job gets a price   *)
(* from get_btc_price, or None when the API and the CSV fallback both      *)
(* fail, and formatting a message with None raises TypeError.  The         *)
(* recommendations are those of the phase the process started in           *)
(* (cycle_manager.py:20), a phase that has all the keys the messages use.  *)
(* weekly_saturday_report touches neither last_phase nor the flag.         *)
(***************************************************************************)
Phases == {"accumulation", "parabolic", "distribution", "capitulation", "unknown"}
JobPrices == {"price", "None"}

\* MonitoringSystem.__init__, start_monitoring not yet called
NewMonitoring ==
    [last_phase |-> "None", phase_change_notified |-> FALSE,
     part |-> "off", hourly_ran |-> FALSE, sent |-> [ph \in Phases |-> 0]]

\* start_monitoring up to the scheduler loop
start_monitoring(m, today) ==
    [m EXCEPT !.last_phase = get_current_cycle_phase(today), !.part = "day"]

\* phase_change_notification
phase_change_notification(m, today, price) ==
    LET current_phase == get_current_cycle_phase(today)
    IN IF m.phase_change_notified THEN m
       ELSE IF m.last_phase # "None" /\ m.last_phase # current_phase
       THEN IF price = "None" THEN m     \* raised and caught
            ELSE [m EXCEPT !.sent[current_phase] = @ + 1,
                           !.phase_change_notified = TRUE]
       ELSE m

\* daily_morning_report: _create_daily_message raises on a price of None,
\* after the flag was reset and before last_phase is updated
daily_morning_report(m, today, price) ==
    LET current_phase == get_current_cycle_phase(today)
        checked == IF m.last_phase # "None" /\ m.last_phase # current_phase
                   THEN [m EXCEPT !.phase_change_notified = FALSE] ELSE m
    IN IF price = "None" THEN checked
       ELSE [checked EXCEPT !.last_phase = current_phase]

(***************************************************************************)
(* cycle_manager.py                                                        *)
(***************************************************************************)
CYCLE_LENGTH_DAYS == 1460

\* The process's view of the cycle: the CycleManager's history list, the
\* constants CYCLE_PEAK and CYCLE_BOTTOM as this process imported them
\* (peak, bottom), and the two files: cycle_history.json and the dates
\* written in config.py's text.
NewCycleManager ==
    [history |-> <<>>, peak |-> CYCLE_PEAK, bottom |-> CYCLE_BOTTOM,
     history_file |-> <<>>, config_peak |-> CYCLE_PEAK,
     config_bottom |-> CYCLE_BOTTOM]

\* should_update_cycle_config, on the imported constants
should_update_cycle_config(c, today) == today > c.peak \/ today > c.bottom

\* calculate_next_cycle_dates
calculate_next_cycle_dates(current_peak_date, current_bottom_date) ==
    [next_peak |-> current_peak_date + CYCLE_LENGTH_DAYS,
     next_bottom |-> current_bottom_date + CYCLE_LENGTH_DAYS]

\* _update_config_file: the text of config.py is rewritten where it holds
\* the imported dates; the imported constants stay what they are
update_config_file(c, next_peak, next_bottom) ==
    [c EXCEPT !.config_peak = IF @ = c.peak THEN next_peak ELSE @,
              !.config_bottom = IF @ = c.bottom THEN next_bottom ELSE @]

\* _update_cycle_after_peak
update_cycle_after_peak(c, peak_price) ==
    LET cycle_data == [peak_date |-> c.peak, bottom_date |-> CYCLE_BOTTOM_DATE,
                       peak_price |-> peak_price, confirmed |-> FALSE]
        history == Append(c.history, cycle_data)
        next == calculate_next_cycle_dates(c.peak, CYCLE_BOTTOM_DATE)
    IN update_config_file([c EXCEPT !.history = history,
                                    !.history_file = history],
                          next.next_peak, next.next_bottom)

\* _update_cycle_after_bottom
update_cycle_after_bottom(c) ==
    IF c.history = <<>> THEN c
    ELSE LET history == [c.history EXCEPT ![Len(c.history)] =
                            [@ EXCEPT !.bottom_date = c.bottom,
                                      !.confirmed = TRUE]]
         IN [c EXCEPT !.history = history, !.history_file = history]

\* check_and_update_cycle: the manager after the call and what it returns
check_and_update_cycle(c, today, current_price) ==
    IF ~should_update_cycle_config(c, today) THEN [cm |-> c, ret |-> FALSE]
    ELSE [cm |-> IF today > c.peak THEN update_cycle_after_peak(c, current_price)
                 ELSE IF today > c.bottom THEN update_cycle_after_bottom(c)
                 ELSE c,
          ret |-> TRUE]


(***************************************************************************)
(* The system: one process holding the two global instances, the files it  *)
(* writes, the clock and the price data its collaborators refresh.         *)
(***************************************************************************)
Call(op, ret) ==
    [op |-> op, ret |-> ret, trained |-> FALSE, train_raised |-> FALSE,
     forecast |-> "none", avail |-> {}]

\* a caller that is not inside train_ensemble_models
IdleCaller == [pc |-> "idle", i |-> 0, gen |-> 0]
Callers == 1..MaxCallers

\* what the price source and the two other methods hand to the updater
SpotPrices == {100}         \* what _get_current_price returns
CyclePreds == {[kind |-> "error"], [kind |-> "result", estimated_peak |-> 120]}
TechPreds == {[kind |-> "error"], [kind |-> "result", predicted_price |-> 90]}
\* the pairs explored: both unavailable, both available, the cycle one alone
OtherPreds ==
    {o \in CyclePreds \X TechPreds :
        TechAvailable(o[2]) => CycleAvailable(o[1])}

\* what the three strategies learn in one call: all alike, or the linear one apart
Fits ==
    {[n \in Names |-> c] : c \in FitCoefs}
        \cup {[n \in Names |-> CASE n = "random_forest" -> 160
                                  [] n = "gradient_boosting" -> 130
                                  [] n = "linear" -> 100]}
DefaultFit == [n \in Names |-> 100]

Init ==
    /\ dp = load_models(NewPredictor, NewDisk, 0)
    /\ disk = NewDisk
    /\ fu = NewUpdater
    /\ prices = AppendRows(<<>>, InitRows, 100)
    /\ now = InitRows
    /\ runs = 0
    /\ everTrained = FALSE
    /\ faults = 0
    /\ lastCall = Call("init", "None")
    /\ cin = [fn |-> "none"]
    /\ cout = [kind |-> "unset"]
    /\ callers = [c \in Callers |-> IdleCaller]
    /\ date_today = CYCLE_BOTTOM_DATE
    /\ mon = NewMonitoring
    /\ cm = NewCycleManager

\* the clock advances
AdvanceTime ==
    \E d \in TimeSteps :
        /\ now + d <= InitRows + Horizon
        /\ now' = now + d
        /\ lastCall' = Call("advance_time", "None")
        /\ UNCHANGED <<dp, disk, fu, prices, runs, everTrained, faults, cin, cout,
                   callers, date_today,
                   mon, cm>>

\* the data collaborator appends the daily rows up to today
UpdatePriceData ==
    \E c \in Closes :
        /\ SeriesLen(prices) < now
        /\ prices' = AppendRows(prices, now - SeriesLen(prices), c)
        /\ lastCall' = Call("update_price_data", "None")
        /\ UNCHANGED <<dp, disk, fu, now, runs, everTrained, faults, cin, cout,
                   callers, date_today,
                   mon, cm>>

\* the failures still in the budget
MayFail == faults < MaxFaults
\* the loads explored as failing: the second model file, the scalers file
LoadFailures ==
    {0} \cup IF MayFail
             THEN {k \in {2} : disk.models[ModelNames[k]].exists}
                    \cup (IF disk.scalers.exists THEN {Len(ModelNames) + 1} ELSE {})
             ELSE {}
Count(failed) == IF failed THEN faults + 1 ELSE faults

\* the process is restarted: both module-level instances are constructed anew
Restart ==
    \E loadFail \in LoadFailures :
        /\ dp' = load_models(NewPredictor, disk, loadFail)
        /\ fu' = NewUpdater
        /\ faults' = Count(loadFail # 0)
        /\ lastCall' = Call("restart", "None")
        /\ UNCHANGED <<disk, prices, now, runs, everTrained, cin, cout, callers, date_today,
                   mon, cm>>

TrainEnsembleModels ==
    /\ runs < MaxTrainings
    /\ \E fit \in Fits, fail \in (IF MayFail THEN TrainFailures ELSE {NoFailure}) :
        \E r \in {train_ensemble_models(dp, disk, prices, runs + 1, fit, fail)} :
           /\ dp' = r.dp
           /\ disk' = r.disk
           /\ runs' = runs + 1
           /\ everTrained' = (everTrained \/ ~r.raised)
           /\ faults' = Count(fail # NoFailure)
           /\ lastCall' = [Call("train_ensemble_models",
                                IF r.raised THEN "raised" ELSE "results")
                            EXCEPT !.trained = TRUE, !.train_raised = r.raised]
           /\ UNCHANGED <<fu, prices, now, cin, cout, callers, date_today,
                   mon, cm>>

MakeEnsemblePrediction ==
    /\ Len(dp.predictions_history) < MaxHistory
    /\ \E columns \in Columns :
       \E r \in {make_ensemble_prediction(dp, disk, prices, columns, now)} :
       /\ dp' = r.dp
       /\ disk' = r.disk
       /\ lastCall' = Call("make_ensemble_prediction", r.ret.kind)
       /\ UNCHANGED <<fu, prices, now, runs, everTrained, faults, cin, cout,
                   callers, date_today,
                   mon, cm>>

\* the fits and failures to explore: one when the call will not train
WillTrain ==
    LET a == analyze_forecast_accuracy(dp, prices)
    IN a.ret.kind = "analysis" /\ BelowThreshold(a.ret.average_accuracy)
FitsToTry == IF WillTrain THEN Fits ELSE {DefaultFit}
FailuresToTry == IF WillTrain /\ MayFail THEN TrainFailures ELSE {NoFailure}
\* on a frame without the high column the training raises in the features
FeaturesFailure == [at |-> 0, step |-> "features"]
FitsFor(columns) == IF columns = "close" THEN {DefaultFit} ELSE FitsToTry
FailuresFor(columns) ==
    IF columns = "close"
    THEN (IF WillTrain THEN {FeaturesFailure} ELSE {NoFailure})
    ELSE FailuresToTry

AdaptiveModelUpdate ==
    \E columns \in Columns :
    \E fit \in FitsFor(columns), fail \in FailuresFor(columns) :
        \E r \in {adaptive_model_update(dp, disk, prices, runs + 1, fit, fail)} :
           /\ r.trained => runs < MaxTrainings
           /\ dp' = r.dp
           /\ disk' = r.disk
           /\ runs' = IF r.trained THEN runs + 1 ELSE runs
           /\ everTrained' = (everTrained \/ (r.trained /\ ~r.train_raised))
           /\ faults' = Count(columns = "ohlcv" /\ fail # NoFailure)
           /\ lastCall' = [Call("adaptive_model_update", r.ret)
                            EXCEPT !.trained = r.trained,
                                   !.train_raised = r.train_raised]
           /\ UNCHANGED <<fu, prices, now, cin, cout, callers, date_today,
                   mon, cm>>

PerformForecastUpdate ==
    /\ Len(dp.predictions_history) < MaxHistory
    /\ Len(fu.update_history) < MaxUpdates
    /\ \E columns \in Columns :
       \E fit \in FitsFor(columns), fail \in FailuresFor(columns),
          other \in OtherPreds, current_price \in SpotPrices :
        \E r \in {perform_forecast_update(fu, dp, disk, prices, columns, now, runs + 1,
                    fit, fail, other[1], other[2], current_price)} :
           /\ r.trained => runs < MaxTrainings
           /\ fu' = r.fu
           /\ dp' = r.dp
           /\ disk' = r.disk
           /\ runs' = IF r.trained THEN runs + 1 ELSE runs
           /\ everTrained' =
                (everTrained \/ (r.trained /\ ~r.train_raised))
           /\ faults' = Count(columns = "ohlcv" /\ fail # NoFailure)
           /\ lastCall' = [Call("perform_forecast_update", r.ret)
                            EXCEPT !.trained = r.trained,
                                   !.train_raised = r.train_raised,
                                   !.forecast = r.forecast,
                                   !.avail = r.avail]
           /\ UNCHANGED <<prices, now, cin, cout, callers, date_today,
                   mon, cm>>

\* generate_dynamic_report: load the history when the list is empty, predict,
\* analyse; formatting the report raises when there is no prediction
GenerateDynamicReport ==
    \E p0 \in {IF dp.predictions_history = <<>>
                THEN load_predictions_history(dp, disk) ELSE dp} :
    \E columns \in Columns :
    \E m \in {make_ensemble_prediction(p0, disk, prices, columns, now)} :
    \E a \in {analyze_forecast_accuracy(m.dp, prices)} :
       /\ Len(p0.predictions_history) < MaxHistory
       /\ dp' = a.dp
       /\ disk' = m.disk
       /\ lastCall' = Call("generate_dynamic_report",
                           IF m.ret.kind = "None" \/ a.ret.kind # "analysis"
                           THEN "raised" ELSE "report")
       /\ UNCHANGED <<fu, prices, now, runs, everTrained, faults, cin, cout,
                   callers, date_today,
                   mon, cm>>

\* generate_update_report: one forecast-update round
GenerateUpdateReport ==
    /\ Len(dp.predictions_history) < MaxHistory
    /\ Len(fu.update_history) < MaxUpdates
    /\ \E columns \in Columns :
       \E fit \in FitsFor(columns), fail \in FailuresFor(columns),
          other \in OtherPreds, current_price \in SpotPrices :
        \E r \in {generate_update_report(fu, dp, disk, prices, columns, now,
                    runs + 1, fit, fail, other[1], other[2], current_price)} :
           /\ r.trained => runs < MaxTrainings
           /\ fu' = r.fu
           /\ dp' = r.dp
           /\ disk' = r.disk
           /\ runs' = IF r.trained THEN runs + 1 ELSE runs
           /\ everTrained' =
                (everTrained \/ (r.trained /\ ~r.train_raised))
           /\ faults' = Count(columns = "ohlcv" /\ fail # NoFailure)
           /\ lastCall' = [Call("generate_update_report",
                                IF r.needed THEN "needed" ELSE "not_needed")
                            EXCEPT !.trained = r.trained,
                                   !.train_raised = r.train_raised,
                                   !.forecast = r.forecast,
                                   !.avail = r.avail]
           /\ UNCHANGED <<prices, now, cin, cout, callers, date_today,
                   mon, cm>>

Next ==
    \/ AdvanceTime
    \/ UpdatePriceData
    \/ Restart
    \/ TrainEnsembleModels
    \/ MakeEnsemblePrediction
    \/ AdaptiveModelUpdate
    \/ PerformForecastUpdate
    \/ GenerateDynamicReport
    \/ GenerateUpdateReport

Spec == Init /\ [][Next]_vars

(***************************************************************************)
(* The pure functions on their own: one call of _combine_predictions, of   *)
(* the accuracy entry of analyze_forecast_accuracy, or of the one of       *)
(* evaluate_predictions, on inputs drawn from bounded sets.                *)
(***************************************************************************)
\* what make_ensemble_prediction can hand to the combiner: None or a result
MlPreds == {NoPrediction, [kind |-> "result", ensemble_prediction |-> 100]}
CombineCalls ==
    [fn : {"_combine_predictions"},
     ml_pred : MlPreds,
     cycle_pred : CyclePreds \cup {[kind |-> "result", estimated_peak |-> 110]},
     tech_pred : TechPreds \cup {[kind |-> "result", predicted_price |-> 100]},
     current_price : SpotPrices]

ActualPrices == 1..MaxPrice
PredictedPrices == (0 - MaxPrice)..(3 * MaxPrice)
AnalyzeCalls ==
    {[fn |-> "analyze_forecast_accuracy",
      series |-> AppendRows(<<>>, 1, actual),
      pred |-> [target_date |-> 1, ensemble_prediction |-> e,
                individual_predictions |-> [n \in Names |-> v]]] :
        actual \in ActualPrices, e \in PredictedPrices, v \in PredictedPrices}
EvaluateCalls ==
    [fn : {"evaluate_predictions"},
     actual_price : ActualPrices, predicted_price : PredictedPrices]

\* get_btc_price: the Binance close, else the last close of the CSV files,
\* else None.  api is what the request gave, csv whether the files of the
\* data directory (the ones load_price_data reads) could be read.
NoneValue == [kind |-> "None"]
ApiFailed == [kind |-> "failed"]
get_btc_price(api, csv, series) ==
    IF api.kind = "price" THEN [kind |-> "value", value |-> api.value]
    ELSE IF csv = "read" /\ series # <<>>
    THEN [kind |-> "value", value |-> CloseAt(series, SeriesLen(series))]
    ELSE NoneValue

\* _get_current_price: get_btc_price() or 0
get_current_price(api, csv, series) ==
    LET price == get_btc_price(api, csv, series)
    IN IF price.kind = "None" \/ price.value = 0 THEN 0 ELSE price.value

PriceCalls ==
    [fn : {"_get_current_price"},
     api : {ApiFailed} \cup {[kind |-> "price", value |-> v] : v \in SpotPrices},
     csv : {"read", "failed"},
     series : {AppendRows(AppendRows(<<>>, k, 100), 1, c) :
                    k \in 0..2, c \in Closes}]

\* prepare_advanced_features called on its own, on series around the
\* longest window and around the first length that leaves a row
FeatureLengths == {LookbackWindow - 50, LookbackWindow - 1, LookbackWindow,
                   InitRows - 2, InitRows - 1, InitRows}
FeatureCalls ==
    [fn : {"prepare_advanced_features"},
     series : {AppendRows(<<>>, k, c) : k \in FeatureLengths, c \in Closes},
     columns : Columns]

\* the agreement formula on its own: every set of contributing strategies,
\* every combination of what they predict
PredictionValues == {-300, 10, 100, 1000}
AgreementCalls ==
    [fn : {"model_agreement"},
     predictions : UNION {[used -> PredictionValues] :
                            used \in (SUBSET Names) \ {{}}}]

\* analyze_forecast_accuracy on a new predictor holding a history of one or
\* two predictions, against a series whose closes tell the rows apart
DatedSeries ==
    {AppendRows(<<>>, 1, 1),
     AppendRows(AppendRows(<<>>, 1, 1), 1, 2),
     AppendRows(AppendRows(AppendRows(<<>>, 1, 1), 1, 2), 1, 3)}
DatedPreds ==
    {[kind |-> "result", target_date |-> t, ensemble_prediction |-> e,
      individual_predictions |-> [n \in Names |-> e]] :
        t \in 0..4, e \in {1, 3}}
HistoryCalls ==
    [fn : {"analyze_forecast_accuracy_history"},
     series : DatedSeries,
     history : {<<a>> : a \in DatedPreds}
                \cup {<<a, b>> : a \in DatedPreds, b \in DatedPreds}]

\* _get_technical_prediction from the last row of the indicators: the close,
\* the two moving averages and the RSI.  _calculate_rsi gives NaN on a flat
\* window (0 / 0), 100 on one without losses, and any value between.
NotANumber == [kind |-> "nan"]
Number(v) == [kind |-> "value", value |-> v]
\* a comparison with NaN is False
Greater(a, b) == a.kind = "value" /\ b.kind = "value" /\ a.value > b.value
Less(a, b) == a.kind = "value" /\ b.kind = "value" /\ a.value < b.value

get_technical_prediction(current_price, sma_20, sma_50, rsi) ==
    LET first == Greater(current_price, sma_20)
        second == Greater(current_price, sma_50)
        rsi_bullish ==
            \/ Less(Number(30), rsi) /\ Less(rsi, Number(70))
            \/ ~Greater(rsi, Number(70)) /\ Less(rsi, Number(30))
        rsi_bearish ==
            /\ ~(Less(Number(30), rsi) /\ Less(rsi, Number(70)))
            /\ Greater(rsi, Number(70))
        bullish_signals == (IF first THEN 1 ELSE 0) + (IF second THEN 1 ELSE 0)
                            + (IF rsi_bullish THEN 1 ELSE 0)
        bearish_signals == (IF first THEN 0 ELSE 1) + (IF second THEN 0 ELSE 1)
                            + (IF rsi_bearish THEN 1 ELSE 0)
    IN [kind |-> "result",
        \* current_price * (1 + (bullish - bearish) / 3 * 0.1)
        predicted_price |->
            [num |-> current_price.value * (30 + bullish_signals - bearish_signals),
             den |-> 30],
        bullish_signals |-> bullish_signals,
        bearish_signals |-> bearish_signals]

TechnicalCalls ==
    [fn : {"_get_technical_prediction"},
     current_price : {Number(100)},
     sma_20 : {NotANumber, Number(90), Number(100), Number(110)},
     sma_50 : {NotANumber, Number(90), Number(110)},
     rsi : {NotANumber} \cup {Number(v) : v \in {0, 29, 30, 31, 50, 69, 70, 71, 100}}]

InitPure ==
    /\ dp = load_models(NewPredictor, NewDisk, 0)
    /\ disk = NewDisk
    /\ fu = NewUpdater
    /\ prices = AppendRows(<<>>, InitRows, 100)
    /\ now = InitRows
    /\ runs = 0
    /\ everTrained = FALSE
    /\ faults = 0
    /\ lastCall = Call("init", "None")
    /\ cin \in CombineCalls \cup AnalyzeCalls \cup EvaluateCalls \cup PriceCalls
                \cup FeatureCalls \cup AgreementCalls \cup HistoryCalls
                \cup TechnicalCalls
    /\ cout = [kind |-> "unset"]
    /\ callers = [c \in Callers |-> IdleCaller]
    /\ date_today = CYCLE_BOTTOM_DATE
    /\ mon = NewMonitoring
    /\ cm = NewCycleManager

CombinePredictions ==
    /\ cin.fn = "_combine_predictions"
    /\ cout.kind = "unset"
    /\ cout' = combine_predictions(cin.ml_pred, cin.cycle_pred, cin.tech_pred,
                                   cin.current_price)
    /\ UNCHANGED <<dp, disk, fu, prices, now, runs, everTrained, faults,
                   lastCall, cin, callers, date_today,
                   mon, cm>>

AnalyzeEntry ==
    /\ cin.fn = "analyze_forecast_accuracy"
    /\ cout.kind = "unset"
    /\ cout' = [kind |-> "entry", entry |-> AnalysisEntry(cin.series, cin.pred)]
    /\ UNCHANGED <<dp, disk, fu, prices, now, runs, everTrained, faults,
                   lastCall, cin, callers, date_today,
                   mon, cm>>

EvaluatePredictions ==
    /\ cin.fn = "evaluate_predictions"
    /\ cout.kind = "unset"
    /\ cout' = [kind |-> "evaluation",
                accuracy |-> EvaluationAccuracy(cin.actual_price,
                                                cin.predicted_price)]
    /\ UNCHANGED <<dp, disk, fu, prices, now, runs, everTrained, faults,
                   lastCall, cin, callers, date_today,
                   mon, cm>>

GetCurrentPrice ==
    /\ cin.fn = "_get_current_price"
    /\ cout.kind = "unset"
    /\ cout' = [kind |-> "price",
                value |-> get_current_price(cin.api, cin.csv, cin.series)]
    /\ UNCHANGED <<dp, disk, fu, prices, now, runs, everTrained, faults,
                   lastCall, cin, callers, date_today,
                   mon, cm>>

PrepareAdvancedFeatures ==
    /\ cin.fn = "prepare_advanced_features"
    /\ cout.kind = "unset"
    /\ cout' = prepare_advanced_features(cin.series, cin.columns)
    /\ UNCHANGED <<dp, disk, fu, prices, now, runs, everTrained, faults,
                   lastCall, cin, callers, date_today,
                   mon, cm>>

ComputeModelAgreement ==
    /\ cin.fn = "model_agreement"
    /\ cout.kind = "unset"
    /\ cout' = ModelAgreement(cin.predictions)
    /\ UNCHANGED <<dp, disk, fu, prices, now, runs, everTrained, faults,
                   lastCall, cin, callers, date_today,
                   mon, cm>>

AnalyzeForecastAccuracy ==
    /\ cin.fn = "analyze_forecast_accuracy_history"
    /\ cout.kind = "unset"
    /\ cout' = analyze_forecast_accuracy(
                    [NewPredictor EXCEPT !.predictions_history = cin.history],
                    cin.series).ret
    /\ UNCHANGED <<dp, disk, fu, prices, now, runs, everTrained, faults,
                   lastCall, cin, callers, date_today,
                   mon, cm>>

GetTechnicalPrediction ==
    /\ cin.fn = "_get_technical_prediction"
    /\ cout.kind = "unset"
    /\ cout' = get_technical_prediction(cin.current_price, cin.sma_20,
                                        cin.sma_50, cin.rsi)
    /\ UNCHANGED <<dp, disk, fu, prices, now, runs, everTrained, faults,
                   lastCall, cin, callers, date_today,
                   mon, cm>>

NextPure ==
    \/ CombinePredictions
    \/ AnalyzeEntry
    \/ EvaluatePredictions
    \/ GetCurrentPrice
    \/ PrepareAdvancedFeatures
    \/ ComputeModelAgreement
    \/ AnalyzeForecastAccuracy
    \/ GetTechnicalPrediction

SpecPure == InitPure /\ [][NextPure]_vars

(***************************************************************************)
(* Concurrent callers of train_ensemble_models on the module-level         *)
(* instance.  The method takes no lock: a caller runs the loop one         *)
(* statement at a time and any other caller may run between two of them.   *)
(* gen names the call, callers[c].i the strategy the caller is at.  Every  *)
(* caller fits DefaultFit: the runs differ by their gen alone.             *)
(***************************************************************************)
StrategyAt(c) == ModelNames[callers[c].i]

\* lines 145-152: the features, the split, results = {}
TrainBegin ==
    \E c \in Callers :
        /\ callers[c].pc = "idle"
        /\ runs < MaxTrainings
        /\ TrainSize(prices) > 0
        /\ runs' = runs + 1
        /\ callers' = [callers EXCEPT ![c] = [pc |-> "scale", i |-> 1,
                                              gen |-> runs + 1]]
        /\ UNCHANGED <<dp, disk, fu, prices, now, everTrained, faults,
                       lastCall, cin, cout, date_today,
                   mon, cm>>

\* lines 165-169: self.scalers[model_name] = scaler
TrainScale ==
    \E c \in Callers :
        /\ callers[c].pc = "scale"
        /\ dp' = [dp EXCEPT !.scalers =
                    [n \in (DOMAIN dp.scalers) \cup {StrategyAt(c)} |->
                        IF n = StrategyAt(c) THEN callers[c].gen
                        ELSE dp.scalers[n]]]
        /\ callers' = [callers EXCEPT ![c].pc = "fit"]
        /\ UNCHANGED <<disk, fu, prices, now, runs, everTrained, faults,
                       lastCall, cin, cout, date_today,
                   mon, cm>>

\* line 172: model.fit(X_train_scaled, y_train)
TrainFit ==
    \E c \in Callers :
        /\ callers[c].pc = "fit"
        /\ dp' = [dp EXCEPT !.models[StrategyAt(c)] =
                    [gen |-> callers[c].gen,
                     coef |-> DefaultFit[StrategyAt(c)]]]
        /\ callers' = [callers EXCEPT ![c].pc = "metrics"]
        /\ UNCHANGED <<disk, fu, prices, now, runs, everTrained, faults,
                       lastCall, cin, cout, date_today,
                   mon, cm>>

\* lines 175-189: the metrics, then the next strategy or the end of the loop
TrainMetrics ==
    \E c \in Callers :
        /\ callers[c].pc = "metrics"
        /\ callers' = [callers EXCEPT ![c] =
                        IF callers[c].i < Len(ModelNames)
                        THEN [@ EXCEPT !.pc = "scale", !.i = @ + 1]
                        ELSE [@ EXCEPT !.pc = "save"]]
        /\ UNCHANGED <<dp, disk, fu, prices, now, runs, everTrained, faults,
                       lastCall, cin, cout, date_today,
                   mon, cm>>

\* lines 192-194: self.save_models(); return results
TrainSave ==
    \E c \in Callers :
        /\ callers[c].pc = "save"
        /\ disk' = save_models(dp, disk)
        /\ everTrained' = TRUE
        /\ callers' = [callers EXCEPT ![c] = IdleCaller]
        /\ lastCall' = [Call("train_ensemble_models", "results")
                            EXCEPT !.trained = TRUE]
        /\ UNCHANGED <<dp, fu, prices, now, runs, faults, cin, cout, date_today,
                   mon, cm>>

NextConcurrent ==
    \/ TrainBegin
    \/ TrainScale
    \/ TrainFit
    \/ TrainMetrics
    \/ TrainSave

SpecConcurrent == Init /\ [][NextConcurrent]_vars

(***************************************************************************)
(* get_current_cycle_phase called day after day.                           *)
(***************************************************************************)
\* the call of get_current_cycle_phase on a day, and its result
PhaseCall(today) == [fn |-> "get_current_cycle_phase", today |-> today]
PhaseResult(today) == [kind |-> "phase", phase |-> get_current_cycle_phase(today)]
\* days from one call to the next: the next day, or after a long pause
DaySteps == {1, 400}
LastDay == CYCLE_BOTTOM_DATE + PHASE_CAPITULATION_END + PhaseMargin

InitPhase ==
    /\ dp = load_models(NewPredictor, NewDisk, 0)
    /\ disk = NewDisk
    /\ fu = NewUpdater
    /\ prices = AppendRows(<<>>, InitRows, 100)
    /\ now = InitRows
    /\ runs = 0
    /\ everTrained = FALSE
    /\ faults = 0
    /\ lastCall = Call("init", "None")
    /\ cin = PhaseCall(CYCLE_BOTTOM_DATE - PhaseMargin)
    /\ cout = PhaseResult(CYCLE_BOTTOM_DATE - PhaseMargin)
    /\ callers = [c \in Callers |-> IdleCaller]
    /\ date_today = CYCLE_BOTTOM_DATE
    /\ mon = NewMonitoring
    /\ cm = NewCycleManager

\* the date advances and the phase is asked for again
GetCurrentCyclePhase ==
    \E step \in DaySteps :
        /\ cin.today + step <= LastDay
        /\ cin' = PhaseCall(cin.today + step)
        /\ cout' = PhaseResult(cin.today + step)
        /\ UNCHANGED <<dp, disk, fu, prices, now, runs, everTrained, faults,
                       lastCall, callers, date_today,
                   mon, cm>>

NextPhase == GetCurrentCyclePhase

SpecPhase == InitPhase /\ [][NextPhase]_vars

(***************************************************************************)
(* get_all_timers called day after day.                                    *)
(***************************************************************************)
TimersCall(today) == [fn |-> "get_all_timers", today |-> today]
TimersResult(today) == [kind |-> "timers", timers |-> get_all_timers(today)]

InitTimers ==
    /\ dp = load_models(NewPredictor, NewDisk, 0)
    /\ disk = NewDisk
    /\ fu = NewUpdater
    /\ prices = AppendRows(<<>>, InitRows, 100)
    /\ now = InitRows
    /\ runs = 0
    /\ everTrained = FALSE
    /\ faults = 0
    /\ lastCall = Call("init", "None")
    /\ cin = TimersCall(CYCLE_BOTTOM_DATE - PhaseMargin)
    /\ cout = TimersResult(CYCLE_BOTTOM_DATE - PhaseMargin)
    /\ callers = [c \in Callers |-> IdleCaller]
    /\ date_today = CYCLE_BOTTOM_DATE
    /\ mon = NewMonitoring
    /\ cm = NewCycleManager

\* the date advances and the timers are asked for again
GetAllTimers ==
    \E step \in DaySteps :
        /\ cin.today + step <= NEXT_HALVING + PhaseMargin
        /\ cin' = TimersCall(cin.today + step)
        /\ cout' = TimersResult(cin.today + step)
        /\ UNCHANGED <<dp, disk, fu, prices, now, runs, everTrained, faults,
                       lastCall, callers, date_today,
                   mon, cm>>

NextTimers == GetAllTimers

SpecTimers == InitTimers /\ [][NextTimers]_vars

(***************************************************************************)
(* The monitoring system running: start_monitoring, then day after day the *)
(* hourly phase_change_notification job, which runs at least once between  *)
(* midnight and 08:00, and the daily_morning_report job at 08:00.  The     *)
(* days far from every phase boundary, on which nothing changes, are       *)
(* passed over.                                                            *)
(***************************************************************************)
Boundaries ==
    {CYCLE_BOTTOM_DATE + e : e \in {PHASE_ACCUMULATION_END, PHASE_PARABOLIC_END,
                                    PHASE_DISTRIBUTION_END, PHASE_CAPITULATION_END}}
NextMonitorDay(d) ==
    IF \E b \in Boundaries : d + 1 \in (b - PhaseMargin)..(b + PhaseMargin)
    THEN d + 1
    ELSE CHOOSE n \in {b - PhaseMargin : b \in Boundaries} :
            /\ n > d
            /\ \A b \in Boundaries : b - PhaseMargin > d => n <= b - PhaseMargin

InitMonitoring ==
    /\ dp = load_models(NewPredictor, NewDisk, 0)
    /\ disk = NewDisk
    /\ fu = NewUpdater
    /\ prices = AppendRows(<<>>, InitRows, 100)
    /\ now = InitRows
    /\ runs = 0
    /\ everTrained = FALSE
    /\ faults = 0
    /\ lastCall = Call("init", "None")
    /\ cin = [fn |-> "none"]
    /\ cout = [kind |-> "unset"]
    /\ callers = [c \in Callers |-> IdleCaller]
    /\ date_today = CYCLE_BOTTOM_DATE + PHASE_ACCUMULATION_END - PhaseMargin
    /\ mon = start_monitoring(NewMonitoring, date_today)
    /\ cm = NewCycleManager

\* the date changes; the days after LastDay, all of phase "unknown", are
\* kept as one
Midnight ==
    /\ mon.part = "day"
    /\ date_today' = IF date_today < LastDay THEN NextMonitorDay(date_today)
                      ELSE date_today
    /\ mon' = [mon EXCEPT !.part = "night", !.hourly_ran = FALSE]
    /\ UNCHANGED <<dp, disk, fu, prices, now, runs, everTrained, faults,
                   lastCall, cin, cout, callers, cm>>

\* the hourly job, given what get_btc_price returns
PhaseChangeNotificationWith(price) ==
    /\ mon.part # "off"
    /\ \E m \in {phase_change_notification(mon, date_today, price)} :
        mon' = [m EXCEPT !.hourly_ran = TRUE,
                         !.sent = [ph \in Phases |->
                                     IF m.sent[ph] > MaxNotifications
                                     THEN MaxNotifications ELSE m.sent[ph]]]
    /\ UNCHANGED <<dp, disk, fu, prices, now, runs, everTrained, faults,
                   lastCall, cin, cout, callers, date_today, cm>>

PhaseChangeNotification == \E price \in JobPrices : PhaseChangeNotificationWith(price)

\* the 08:00 job, given what get_btc_price returns
DailyMorningReport ==
    /\ mon.part = "night"
    /\ mon.hourly_ran
    /\ \E price \in JobPrices :
        mon' = [daily_morning_report(mon, date_today, price) EXCEPT !.part = "day"]
    /\ UNCHANGED <<dp, disk, fu, prices, now, runs, everTrained, faults,
                   lastCall, cin, cout, callers, date_today, cm>>

NextMonitoring ==
    \/ Midnight
    \/ PhaseChangeNotification
    \/ DailyMorningReport

\* the scheduler runs every job that is due; a price that could be had is
\* not withheld from the hourly job for ever
SpecMonitoring ==
    /\ InitMonitoring
    /\ [][NextMonitoring]_vars
    /\ WF_vars(Midnight)
    /\ WF_vars(DailyMorningReport)
    /\ WF_vars(PhaseChangeNotificationWith("price"))

(***************************************************************************)
(* The cycle manager: the date advances over the days around the forecast  *)
(* peak and bottom dates of this cycle and the next, check_and_update_cycle *)
(* is called, and the process is restarted.                                *)
(***************************************************************************)
CycleDays ==
    LET next == calculate_next_cycle_dates(CYCLE_PEAK, CYCLE_BOTTOM_DATE)
    IN UNION {{d - 1, d, d + 1, d + 2} :
                d \in {CYCLE_PEAK, CYCLE_BOTTOM, next.next_bottom, next.next_peak}}

InitCycle ==
    /\ dp = load_models(NewPredictor, NewDisk, 0)
    /\ disk = NewDisk
    /\ fu = NewUpdater
    /\ prices = AppendRows(<<>>, InitRows, 100)
    /\ now = InitRows
    /\ runs = 0
    /\ everTrained = FALSE
    /\ faults = 0
    /\ lastCall = Call("init", "None")
    /\ cin = [fn |-> "none"]
    /\ cout = [kind |-> "unset"]
    /\ callers = [c \in Callers |-> IdleCaller]
    /\ date_today = CYCLE_PEAK - 1
    /\ mon = NewMonitoring
    /\ cm = NewCycleManager

\* the date changes
CycleMidnight ==
    /\ \E e \in CycleDays : e > date_today
    /\ date_today' = CHOOSE e \in CycleDays :
                        /\ e > date_today
                        /\ \A f \in CycleDays : f > date_today => e <= f
    /\ UNCHANGED <<dp, disk, fu, prices, now, runs, everTrained, faults,
                   lastCall, cin, cout, callers, mon, cm>>

\* one call of cycle_manager.check_and_update_cycle(); get_btc_price gives a
\* price or None
CheckAndUpdateCycle ==
    \E current_price \in JobPrices :
        /\ Len(cm.history) < MaxCycleEntries
        /\ LET r == check_and_update_cycle(cm, date_today, current_price)
           IN /\ cm' = r.cm
              /\ cin' = [fn |-> "check_and_update_cycle", today |-> date_today]
              /\ cout' = [kind |-> "bool", value |-> r.ret]
        /\ UNCHANGED <<dp, disk, fu, prices, now, runs, everTrained, faults,
                       lastCall, callers, date_today, mon>>

\* the process ends and a new one starts: config.py is imported again and
\* CycleManager() loads cycle_history.json
RestartProcess ==
    /\ cm' = [cm EXCEPT !.history = cm.history_file, !.peak = cm.config_peak,
                       !.bottom = cm.config_bottom]
    /\ cin' = [fn |-> "none"]
    /\ cout' = [kind |-> "unset"]
    /\ UNCHANGED <<dp, disk, fu, prices, now, runs, everTrained, faults,
                   lastCall, callers, date_today, mon>>

NextCycle == CycleMidnight \/ CheckAndUpdateCycle \/ RestartProcess

SpecCycle == InitCycle /\ [][NextCycle]_vars

(***************************************************************************)
(* Repeated forecasts.  _generate_comprehensive_forecast is called again   *)
(* and again while the models are trained, the clock runs and the price    *)
(* data is refreshed.  cin holds what the call was made against (the       *)
(* models and scalers, the price series, what the price source and the two *)
(* other methods gave) and, when the forecast call before it was made      *)
(* against the same, what that call returned; cout holds the forecast.     *)
(***************************************************************************)
SpotPricesSeen == SpotPrices \cup {110}

ForecastAgainst(columns, cycle_pred, tech_pred, current_price) ==
    [models |-> dp.models, scalers |-> dp.scalers, series |-> prices,
     columns |-> columns, cycle_pred |-> cycle_pred, tech_pred |-> tech_pred,
     current_price |-> current_price]

GenerateComprehensiveForecast ==
    /\ Len(dp.predictions_history) < MaxHistory
    /\ \E columns \in Columns, other \in OtherPreds,
          current_price \in SpotPricesSeen :
        \E r \in {generate_comprehensive_forecast(dp, disk, prices, columns,
                    now, other[1], other[2], current_price)},
           against \in {ForecastAgainst(columns, other[1], other[2],
                                        current_price)} :
           /\ dp' = r.dp
           /\ disk' = r.disk
           /\ cin' = [fn |-> "_generate_comprehensive_forecast",
                      against |-> against,
                      before |-> IF /\ cin.fn = "_generate_comprehensive_forecast"
                                    /\ cin.against = against
                                 THEN [kind |-> "call", forecast |-> cout]
                                 ELSE NoneValue]
           /\ cout' = r.forecast
           /\ lastCall' = Call("_generate_comprehensive_forecast", r.forecast.kind)
           /\ UNCHANGED <<fu, prices, now, runs, everTrained, faults, callers, date_today,
                   mon, cm>>

NextForecast ==
    \/ AdvanceTime
    \/ UpdatePriceData
    \/ TrainEnsembleModels
    \/ GenerateComprehensiveForecast

SpecForecast == Init /\ [][NextForecast]_vars

(***************************************************************************)
(* The claims.                                                             *)
(***************************************************************************)
\* base weights of the three methods, in tenths
BaseWeight(m) == CASE m = "ml" -> 5 [] m = "cycle" -> 3 [] m = "technical" -> 2
\* the raw prediction of an available method of a combiner call
RawPrediction(call, m) ==
    CASE m = "ml" -> call.ml_pred.ensemble_prediction
      [] m = "cycle" -> call.cycle_pred.estimated_peak
      [] m = "technical" -> call.tech_pred.predicted_price
CallAvailable(call) ==
    AvailableMethods(call.ml_pred, call.cycle_pred, call.tech_pred)
Combined == cin.fn = "_combine_predictions" /\ cout.kind # "unset"
FracEq(a, b) == a.num * b.den = b.num * a.den

\* C1: for every non-empty set of available methods, _combine_predictions
\* returns sum(base_weight x prediction) / sum(base_weight) over exactly the
\* available methods, with base weights 0.5, 0.3 and 0.2.
C1_WeightedAverageOfAvailable ==
    (Combined /\ CallAvailable(cin) # {}) =>
        /\ cout.kind = "forecast"
        /\ FracEq(cout.combined_prediction,
                  [num |-> SumOver([m \in CallAvailable(cin) |->
                                      BaseWeight(m) * RawPrediction(cin, m)],
                                   CallAvailable(cin)),
                   den |-> SumOver([m \in CallAvailable(cin) |-> BaseWeight(m)],
                                   CallAvailable(cin))])

\* C2: when exactly one of the three methods produced a valid prediction, the
\* combined forecast equals that method's raw prediction exactly.
C2_SingleMethodIsRaw ==
    (Combined /\ Cardinality(CallAvailable(cin)) = 1) =>
        /\ cout.kind = "forecast"
        /\ \A m \in CallAvailable(cin) :
              FracEq(cout.combined_prediction, Frac(RawPrediction(cin, m)))

C4_ErrorIffAllUnavailable ==
    Combined =>
        /\ cout.kind = "error" <=> CallAvailable(cin) = {}
        /\ CallAvailable(cin) # {} => cout.kind = "forecast"

\* the mean accuracy over the evaluable predictions of p is strictly below 70
EvaluableMeanBelow70(p, series) ==
    LET analysis == AccuracyAnalysis(series, p.predictions_history)
        sum == SumSeq([i \in 1..Len(analysis) |-> analysis[i].accuracy])
    IN analysis # <<>> /\ sum.num < 70 * Len(analysis) * sum.den
CalledAdaptive(call) ==
    call.op \in {"adaptive_model_update", "perform_forecast_update"}

\* C5: adaptive_model_update retrains the ensemble if and only if the mean
\* accuracy over all evaluable past predictions is strictly below 70.
C5_RetrainIffMeanBelow70 ==
    [][CalledAdaptive(lastCall') =>
          (lastCall'.trained <=> EvaluableMeanBelow70(dp, prices))]_vars
\* adaptive_model_update has retrained, and the training succeeded
C5_Retrained ==
    /\ lastCall.op = "adaptive_model_update"
    /\ lastCall.trained /\ ~lastCall.train_raised /\ lastCall.ret = "True"
    /\ \A n \in Names : dp.models[n].gen = runs

\* C6: when train_ensemble_models fails at any point, the three models and
\* their scalers in memory are exactly what they were before the call.
C6_FailedTrainingKeepsModelState ==
    [][lastCall'.train_raised =>
          (dp'.models = dp.models /\ dp'.scalers = dp.scalers)]_vars

InPercentRange(f) == f.den > 0 /\ 0 <= f.num /\ f.num <= 100 * f.den

\* C8: every accuracy computed by analyze_forecast_accuracy (for the ensemble
\* estimate and for each model) and by evaluate_predictions lies in [0, 100],
\* whatever the predicted price and the positive realized price.
C8_AccuracyWithinBounds ==
    /\ cout.kind = "entry" =>
          /\ InPercentRange(cout.entry.accuracy)
          /\ \A n \in DOMAIN cout.entry.model_accuracy :
                InPercentRange(cout.entry.model_accuracy[n])
    /\ cout.kind = "evaluation" => InPercentRange(cout.accuracy)
\* an entry whose error exceeds 100 percent, for the ensemble and the models
C8_ErrorAboveHundredPercent ==
    /\ cout.kind = "entry"
    /\ cout.entry.predicted_price > 2 * cout.entry.actual_price
    /\ \A n \in Names : cin.pred.individual_predictions[n] < 0
    /\ cout.entry.accuracy = [num |-> 0, den |-> cout.entry.actual_price]

IsPrefix(s, t) == Len(s) <= Len(t) /\ SubSeq(t, 1, Len(s)) = s
\* the records of the history file; none while the file does not exist
HistoryFile(d) == IF d.history.exists THEN d.history.content ELSE <<>>

Training == {c \in Callers : callers[c].pc # "idle"}

\* C11: two retraining operations never execute concurrently on the same
\* ModelState: whenever no retraining is running, the three models and the
\* three scalers in memory all come from one run, never from a mix of two.
C11_RetrainingIsCriticalSection ==
    /\ Cardinality(Training) <= 1
    /\ (Training = {} /\ everTrained) =>
          \E g \in 1..runs :
              \A n \in Names : dp.models[n].gen = g /\ dp.scalers[n] = g

\* C12: make_ensemble_prediction leaves the three models and their scalers
\* unchanged, whether it returns a prediction or fails.
C12_PredictionLeavesModelState ==
    [][lastCall'.op \in {"make_ensemble_prediction", "generate_dynamic_report"}
          => (dp'.models = dp.models /\ dp'.scalers = dp.scalers)]_vars
\* a prediction has been made from trained models and recorded
C12_PredictedFromTrainedModels ==
    /\ lastCall.op = "make_ensemble_prediction"
    /\ lastCall.ret = "result"
    /\ DOMAIN dp.scalers = Names
    /\ dp.predictions_history # <<>>

\* the phase was asked for on the day cin.today
PhaseAsked == cin.fn = "get_current_cycle_phase" /\ cout.kind = "phase"

\* C13: get_current_cycle_phase is a total function of the whole days d since
\* the cycle-bottom anchor: accumulation for d <= 180, parabolic for
\* 180 < d <= 730, distribution for 730 < d <= 1000, capitulation for
\* 1000 < d <= 1460, unknown for d > 1460; always one of these five values.
C13_PhaseByElapsedDays ==
    PhaseAsked =>
        LET d == cin.today - CYCLE_BOTTOM_DATE
        IN /\ cout.phase \in {"accumulation", "parabolic", "distribution",
                              "capitulation", "unknown"}
           /\ cout.phase = "accumulation" <=> d <= 180
           /\ cout.phase = "parabolic" <=> (180 < d /\ d <= 730)
           /\ cout.phase = "distribution" <=> (730 < d /\ d <= 1000)
           /\ cout.phase = "capitulation" <=> (1000 < d /\ d <= 1460)
           /\ cout.phase = "unknown" <=> d > 1460
\* the last day of the accumulation phase
C13_LastAccumulationDay ==
    PhaseAsked /\ cin.today - CYCLE_BOTTOM_DATE = 180
        /\ cout.phase = "accumulation"

\* the place of a phase in the order of the cycle
PhaseOrder(phase) ==
    CASE phase = "accumulation" -> 1
      [] phase = "parabolic" -> 2
      [] phase = "distribution" -> 3
      [] phase = "capitulation" -> 4
      [] phase = "unknown" -> 5

\* C14: with a fixed anchor and fixed boundaries, the phase only moves forward
\* as the date advances: a later date never reports an earlier phase.
C14_PhaseOnlyMovesForward ==
    [][(PhaseAsked /\ cin'.today > cin.today) =>
          PhaseOrder(cout'.phase) >= PhaseOrder(cout.phase)]_vars
\* the cycle has run past its last phase
C14_PastCapitulation ==
    PhaseAsked /\ cin.today - CYCLE_BOTTOM_DATE > 1460 /\ cout.phase = "unknown"

\* the sum, in tenths, of the weights applied to the strategies that
\* contributed to a recorded prediction
AppliedWeight(pred) ==
    SumOver([n \in DOMAIN pred.individual_predictions |-> EnsembleWeight(n)],
            DOMAIN pred.individual_predictions)

C16_FallbackIsLastClose ==
    (cin.fn = "_get_current_price" /\ cout.kind # "unset"
        /\ cin.api = ApiFailed) =>
        /\ cout.kind = "price"
        /\ cout.value = CloseAt(cin.series, SeriesLen(cin.series))
        /\ cout.value # 0

\* C17: given a price series shorter than the longest lookback window (200
\* periods), feature building fails with an error and returns no feature
\* table: it never returns an empty or partial table as a successful result.
C17_ShortSeriesFailsFeatureBuilding ==
    (cin.fn = "prepare_advanced_features" /\ cout.kind # "unset"
        /\ SeriesLen(cin.series) < LookbackWindow)
    => cout.kind = "raised"

\* 1 - sqrt(ratio_sq) lies in [0, 1] exactly when ratio_sq does
InUnitInterval(agreement) ==
    \/ agreement.kind = "zero"
    \/ /\ agreement.kind = "complement"
       /\ FracLeq(Frac(0), agreement.ratio_sq)
       /\ FracLeq(agreement.ratio_sq, Frac(1))

RepeatedForecast ==
    /\ cin.fn = "_generate_comprehensive_forecast"
    /\ cin.before.kind = "call"

C20_FailedLoadLeavesPredictor ==
    [][(lastCall'.op = "restart" /\ faults' > faults)
        => (dp' = NewPredictor /\ disk' = disk)]_vars

\* C21: get_all_timers returns a non-negative number of days for each of
\* halving, peak and bottom, on every calendar date on which it is called.
C21_TimersNonNegative ==
    (cin.fn = "get_all_timers" /\ cout.kind = "timers")
    => /\ cout.timers.halving >= 0
       /\ cout.timers.peak >= 0
       /\ cout.timers.bottom >= 0

\* the predictions of a history whose target date is not later than the
\* latest price date, in the order of the history
Evaluable(series, history) ==
    SelectSeq(history, LAMBDA pred : pred.target_date <= SeriesLen(series))
\* the earliest row of the series dated at or after a target date
EarliestRowFrom(series, target_date) ==
    CHOOSE r \in 1..SeriesLen(series) :
        /\ r >= target_date
        /\ \A q \in 1..SeriesLen(series) : q >= target_date => r <= q
HistoryAnalysed == cin.fn = "analyze_forecast_accuracy_history" /\ cout.kind # "unset"

\* C22: analyze_forecast_accuracy evaluates a past prediction if and only if
\* its target date is not later than the latest price date, and scores it
\* against the close of the earliest price row dated at or after the target
\* date; the predictions whose target date lies beyond the last price date
\* are skipped and do not enter the mean.
C22_EvaluatedIffTargetReached ==
    HistoryAnalysed =>
        LET evaluable == Evaluable(cin.series, cin.history)
            entries == cout.detailed_analysis
        IN IF evaluable = <<>> THEN cout.kind # "analysis"
           ELSE /\ cout.kind = "analysis"
                /\ cout.total_predictions = Len(evaluable)
                /\ Len(entries) = Len(evaluable)
                /\ \A k \in 1..Len(evaluable) :
                    /\ entries[k].predicted_price = evaluable[k].ensemble_prediction
                    /\ entries[k].actual_price =
                         CloseAt(cin.series,
                                 EarliestRowFrom(cin.series, evaluable[k].target_date))
                /\ FracEq(cout.average_accuracy,
                          Mean([k \in 1..Len(evaluable) |->
                                 Accuracy(CloseAt(cin.series,
                                            EarliestRowFrom(cin.series,
                                                evaluable[k].target_date)),
                                          evaluable[k].ensemble_prediction)]))

\* of two predictions the first is scored against a row that is not the last
\* one and the second is skipped
C22_OneScoredOneSkipped ==
    /\ HistoryAnalysed
    /\ Len(cin.history) = 2
    /\ cin.history[1].target_date = 2
    /\ cin.history[2].target_date > SeriesLen(cin.series)
    /\ SeriesLen(cin.series) = 3
    /\ cout.kind = "analysis"
    /\ cout.total_predictions = 1

C24_RsiContributesOneSignal ==
    (cin.fn = "_get_technical_prediction" /\ cout.kind = "result"
        /\ cin.rsi.kind = "value")
    => LET averages == (IF Greater(cin.current_price, cin.sma_20) THEN 1 ELSE 0)
                        + (IF Greater(cin.current_price, cin.sma_50) THEN 1 ELSE 0)
       IN /\ cout.bullish_signals
                = averages + (IF cin.rsi.value <= 70 THEN 1 ELSE 0)
          /\ cout.bearish_signals
                = (2 - averages) + (IF cin.rsi.value > 70 THEN 1 ELSE 0)
          /\ cout.bullish_signals - cout.bearish_signals \in -3..3

ChangedPhases == Phases \ {"accumulation"}

\* C26: every cycle-phase change that happens while the monitoring system
\* runs is eventually followed by a phase-change notification.
C26_PhaseChangeIsNotified ==
    \A ph \in ChangedPhases :
        (get_current_cycle_phase(date_today) = ph) ~> (mon.sent[ph] > 0)

\* C27: at most one phase-change notification is sent per phase change, also
\* when daily_morning_report fails after resetting phase_change_notified and
\* before updating last_phase.
C27_OneNotificationPerChange ==
    \A ph \in Phases : mon.sent[ph] <= 1

\* C28: every entry of method_weights in a combined forecast is keyed by the
\* method that contributed it: the names recorded are exactly the available
\* methods, each with its own base weight.
C28_WeightsKeyedByContributor ==
    (Combined /\ cout.kind = "forecast") =>
        /\ DOMAIN cout.method_weights = CallAvailable(cin)
        /\ \A m \in DOMAIN cout.method_weights :
              cout.method_weights[m] = BaseWeight(m)

\* C29: check_and_update_cycle records a completed cycle at most once: the
\* history of one process never holds two entries for the same cycle (the
\* same peak date), however often it is called after the peak date.
C29_CycleRecordedOnce ==
    \A i, j \in 1..Len(cm.history) :
        cm.history[i].peak_date = cm.history[j].peak_date => i = j

====
